---- MODULE Spec2Model ----
(***************************************************************************)
(* pasteVector (src/src/extension.ts): the clipboard negotiation that the  *)
(* command pasteVector.pasteVector runs, as a state machine.               *)
(*                                                                         *)
(* Strings that the code splits, trims or searches are sequences of        *)
(* tokens: the clipboard text is a sequence of text tokens, an offered     *)
(* type is the sequence of the pieces between its ";" separators.  A file  *)
(* is Absent, 0 (empty) or 1 (not empty), which is all the code reads of   *)
(* it; a byte buffer is its length.  A local that is not read again is     *)
(* dropped where it is read last, and the error a catch block has caught   *)
(* is dropped when the next step begins.                                   *)
(***************************************************************************)
EXTENDS Integers, Sequences, FiniteSets, TLC

(* ------------------------------ bounds -------------------------------- *)

\* most data events one process delivers on its standard output
MaxOut == 2
\* most data events one process delivers on its standard error
MaxErr == 1
\* calls of commandExists in the sequences exercised on their own
MaxCalls == 3

(* -------------------------- program constants -------------------------- *)

T_LIST_MS == 1200
T_READ_MS == 6000
T_CONVERT_MS == 45000
T_WINCLIP_MS == 12000

\* the exit code null of a process ended by a signal
NULL_CODE == -2

\* exit codes of the bridge script
EXIT_SVG == 12
EXIT_EMF == 10
EXIT_PNG == 11
EXIT_NOTHING == 2

(* ------------------------------ text ----------------------------------- *)

WS == " "
DATA_PREFIX == "data:image/svg+xml"
B64 == ";base64"
COMMA == ","
SVG_OPEN == "<svg"
SVG_CLOSE == "</svg>"
GT == ">"
CH == "x"

\* the clipboard texts the environment offers
ClipTexts ==
  { << >>,
    <<CH>>,
    <<CH, WS>>,
    <<CH, WS, CH>>,
    <<SVG_OPEN, GT, SVG_CLOSE>>,
    <<SVG_OPEN, WS, GT, SVG_CLOSE>>,
    <<DATA_PREFIX, B64, COMMA, CH>>,
    <<DATA_PREFIX, B64, COMMA, CH, CH>> }

\* number of characters of a token
TokLen(tok) ==
  CASE tok = DATA_PREFIX -> 18
    [] tok = B64 -> 7
    [] tok = SVG_OPEN -> 4
    [] tok = SVG_CLOSE -> 6
    [] OTHER -> 1

RECURSIVE StrLen(_)
StrLen(s) == IF s = << >> THEN 0 ELSE TokLen(Head(s)) + StrLen(Tail(s))

RECURSIVE TrimStart(_)
TrimStart(s) ==
  IF s # << >> /\ Head(s) = WS THEN TrimStart(Tail(s)) ELSE s

RECURSIVE TrimEnd(_)
TrimEnd(s) ==
  IF s # << >> /\ s[Len(s)] = WS THEN TrimEnd(SubSeq(s, 1, Len(s) - 1)) ELSE s

\* String.prototype.trim
Trim(s) == TrimEnd(TrimStart(s))

\* /\s/.test(s)
HasWhitespace(s) == \E i \in 1..Len(s) : s[i] = WS

\* s.indexOf(tok), 0 when absent
IndexOf(s, tok) ==
  IF \E i \in 1..Len(s) : s[i] = tok
  THEN CHOOSE i \in 1..Len(s) : s[i] = tok /\ \A j \in 1..(i - 1) : s[j] # tok
  ELSE 0

looksLikeSvgText(s) ==
  LET t == Trim(s) IN
  IF t = << >> THEN FALSE
  ELSE IF t[1] = DATA_PREFIX THEN TRUE
  ELSE /\ \E i \in 1..(Len(t) - 1) : t[i] = SVG_OPEN /\ t[i + 1] \in {WS, GT}
       /\ \E j \in 1..Len(t) : t[j] = SVG_CLOSE

\* length in bytes of decodeSvgTextOrDataUri(s)
decodeSvgTextOrDataUri(s) ==
  LET t == Trim(s)
      comma == IndexOf(t, COMMA)
      meta == SubSeq(t, 1, comma - 1)
      data == SubSeq(t, comma + 1, Len(t))
  IN IF t = << >> \/ t[1] # DATA_PREFIX THEN StrLen(t)
     ELSE IF comma = 0 THEN StrLen(t)
     ELSE IF \E i \in 1..Len(meta) : meta[i] = B64
          THEN (StrLen(data) * 3) \div 4
          ELSE StrLen(data)

(* ------------------------------ files ---------------------------------- *)

Absent == -1

\* makeOutAbs under the default template image.${fileExtName}
makeOutAbs(ext) == ext

TMP_EMF == "tmp.emf"
Paths == {"svg", "png", "jpg", TMP_EMF}

\* what a file of n bytes is in files
FileOf(n) == IF n > 0 THEN 1 ELSE 0

statSafe(fs, p) ==
  IF fs[p] = Absent THEN [exists |-> FALSE, size |-> 0]
  ELSE [exists |-> TRUE, size |-> fs[p]]

(* --------------------------- handler registry --------------------------- *)

\* the offered types a backend's listing command prints, one per line; a
\* type is the sequence of its pieces between ";"
RawLines ==
  { <<"image/svg+xml", "charset=utf-8">>,
    <<"image/x-emf">>,
    <<"image/png">> }

\* the registry with the raster handlers registered first
LINUX_HANDLERS_RasterFirst ==
  << [name |-> "png", ext |-> "png",
      bases |-> << <<"image/png">>, <<"image/x-png">> >>],
     [name |-> "jpg", ext |-> "jpg",
      bases |-> << <<"image/jpeg">> >>],
     [name |-> "svg", ext |-> "svg",
      bases |-> << <<"image/svg+xml">>, <<"image/x-inkscape-svg">> >>],
     [name |-> "svgz", ext |-> "svg",
      bases |-> << <<"image/svg+xml-compressed">>,
                   <<"image/x-inkscape-svg-compressed">> >>],
     [name |-> "emf", ext |-> "svg",
      bases |-> << <<"WCF_ENHMETAFILE">>, <<"image/x-emf">>, <<"image/emf">> >>] >>

LINUX_HANDLERS ==
  << [name |-> "svg", ext |-> "svg",
      bases |-> << <<"image/svg+xml">>, <<"image/x-inkscape-svg">> >>],
     [name |-> "svgz", ext |-> "svg",
      bases |-> << <<"image/svg+xml-compressed">>,
                   <<"image/x-inkscape-svg-compressed">> >>],
     [name |-> "emf", ext |-> "svg",
      bases |-> << <<"WCF_ENHMETAFILE">>, <<"image/x-emf">>, <<"image/emf">> >>],
     [name |-> "png", ext |-> "png",
      bases |-> << <<"image/png">>, <<"image/x-png">> >>],
     [name |-> "jpg", ext |-> "jpg",
      bases |-> << <<"image/jpeg">> >>] >>

VectorHandlers == {"svg", "svgz", "emf"}
RasterHandlers == {"png", "jpg"}

IsNonEmpty(line) == line # << >>

\* ClipboardBackend.listTypes, from the text the listing command printed
listTypes(kind, stdout) ==
  LET lines == SelectSeq(stdout, IsNonEmpty)
  IN [i \in 1..Len(lines) |->
        [raw |-> lines[i],
         base |-> IF kind = "wayland" THEN <<lines[i][1]>> ELSE lines[i]]]

\* offered.find((t) => t.base === b): index of the first hit, 0 when none
FindBase(offered, b) ==
  IF \E i \in 1..Len(offered) : offered[i].base = b
  THEN CHOOSE i \in 1..Len(offered) :
         /\ offered[i].base = b
         /\ \A j \in 1..(i - 1) : offered[j].base # b
  ELSE 0

\* a pickFirst that walks the offered list and takes its first entry whose
\* base is one of bases
pickFirst_OfferedOrder(offered, bases) ==
  IF \E i \in 1..Len(offered) : \E k \in 1..Len(bases) : offered[i].base = bases[k]
  THEN CHOOSE i \in 1..Len(offered) :
         /\ \E k \in 1..Len(bases) : offered[i].base = bases[k]
         /\ \A j \in 1..(i - 1) : \A k \in 1..Len(bases) : offered[j].base # bases[k]
  ELSE 0

\* pickFirst: index in offered of the hit, 0 for null
pickFirst(offered, bases) ==
  IF \E k \in 1..Len(bases) : FindBase(offered, bases[k]) # 0
  THEN LET k == CHOOSE k \in 1..Len(bases) :
                  /\ FindBase(offered, bases[k]) # 0
                  /\ \A m \in 1..(k - 1) : FindBase(offered, bases[m]) = 0
       IN FindBase(offered, bases[k])
  ELSE 0

\* the handler loop of tryLinuxClipboard: index of the first handler with a
\* match, 0 when every handler is skipped
FirstHandler(offered) ==
  IF \E i \in 1..Len(LINUX_HANDLERS) : pickFirst(offered, LINUX_HANDLERS[i].bases) # 0
  THEN CHOOSE i \in 1..Len(LINUX_HANDLERS) :
         /\ pickFirst(offered, LINUX_HANDLERS[i].bases) # 0
         /\ \A j \in 1..(i - 1) : pickFirst(offered, LINUX_HANDLERS[j].bases) = 0
  ELSE 0

\* lengths maybeGunzip can return for a buffer of n bytes: the buffer
\* itself when gunzip fails, any length when it succeeds
maybeGunzip(n) == IF n = 0 THEN {0} ELSE {n} \cup (0..MaxOut)

(* --------------------------- command cache ----------------------------- *)

Cmds == {"powershell.exe", "wslpath", "emf2svg-conv", "wl-paste", "xclip"}

\* commandExists(cmd): the value returned, probe being the result of the
\* `command -v` probe if one is run
commandExists(cache, cmd, probe) ==
  IF cmd \in DOMAIN cache THEN cache[cmd] ELSE probe

\* a cache that remembers only the commands that were found
CacheAfter_PositiveOnly(cache, cmd, probe) ==
  IF cmd \in DOMAIN cache \/ ~probe THEN cache
  ELSE [c \in (DOMAIN cache) \cup {cmd} |-> IF c = cmd THEN probe ELSE cache[c]]

\* commandExists(cmd): the cache afterwards
CacheAfter(cache, cmd, probe) ==
  IF cmd \in DOMAIN cache THEN cache
  ELSE [c \in (DOMAIN cache) \cup {cmd} |-> IF c = cmd THEN probe ELSE cache[c]]

\* a getBackends that keeps the default order whatever the preference
getBackends_DefaultOrder(prefer, hasWayland, hasX11) ==
  (IF hasWayland THEN <<"wayland">> ELSE << >>) \o (IF hasX11 THEN <<"x11">> ELSE << >>)

\* getBackends: the usable backends in the order of the preference
getBackends(prefer, hasWayland, hasX11) ==
  LET w == IF hasWayland THEN <<"wayland">> ELSE << >>
      x == IF hasX11 THEN <<"x11">> ELSE << >>
  IN IF prefer = "wayland" THEN w \o x
     ELSE IF prefer = "x11" THEN x \o w
     ELSE w \o x

(* ----------------------------- state ----------------------------------- *)

VARIABLES
  env,            \* process.env: [wsl, wayland]
  CMD_CACHE,      \* the command-existence cache
  files,          \* the file system: path -> size or Absent
  run,            \* the runText/runBin call in flight
  pc,             \* position of the paste invocation
  cfg,            \* the settings of the invocation, by key, once they are used
  clipText,       \* const clipText
  thrown,         \* the error the catch block that just ran has caught
  prefer,         \* the parameter prefer of getBackends
  backends,       \* const backends of tryLinuxClipboard
  bIdx,           \* the backend the loop is at (index in backends)
  offered,        \* const offered
  hIdx,           \* the handler the loop is at (index in LINUX_HANDLERS)
  outAbs,         \* the outAbs of the outcome returned to pasteVector
  inserted,       \* paths editor.edit inserted a link to
  defaultPastes,  \* times editor.action.clipboardPasteAction was executed
  notifications,  \* error messages shown to the user
  verified,       \* paths a statSafe of this invocation found non-empty
  log,            \* lines appended to the output channel
  trace,          \* calls made by this invocation, in order
  invocations,    \* the runs of the paste handler that are in progress together
  picked,         \* a call of pickFirst: its arguments and what it returned
  onPath,         \* the commands `command -v` finds at this moment
  calls,          \* the calls of commandExists so far, in order
  script          \* the PowerShell script of the bridge: clipboard and position

\* the parts exercised on their own, apart from the paste invocation
harness == <<invocations, picked, onPath, calls, script>>

vars == <<env, CMD_CACHE, files, run, pc, cfg, clipText, thrown, prefer, backends,
          bIdx, offered, hIdx, outAbs, inserted, defaultPastes, notifications,
          verified, log, trace, harness>>

IdleRun ==
  [st |-> "idle", fn |-> "-", cmd |-> "-", args |-> "-", timeoutMs |-> 0,
   hangs |-> FALSE,
   stdout |-> << >>, stderr |-> << >>, timer |-> "none", proc |-> "none",
   result |-> [code |-> 0, out |-> << >>, stderr |-> << >>]]

\* cp.spawn and setTimeout of runText/runBin
Spawn(fn, cmd, args, timeoutMs, hangs) ==
  [st |-> "pending", fn |-> fn, cmd |-> cmd, args |-> args,
   timeoutMs |-> timeoutMs, hangs |-> hangs, stdout |-> << >>, stderr |-> << >>, timer |-> "armed",
   proc |-> "running",
   result |-> [code |-> 0, out |-> << >>, stderr |-> << >>]]

\* a promise whose every resolve replaces the value
Resolve_LastWins(r, value) ==
  [r EXCEPT !.st = "settled", !.result = value, !.hangs = FALSE]

\* resolve(value) of the promise: only the first call settles it
Resolve(r, value) ==
  IF r.st = "pending"
  THEN [r EXCEPT !.st = "settled", !.result = value, !.hangs = FALSE]
  ELSE r

NoFile == "-"
NoText == <<"-">>

NoErr == ""

\* an Error: its message and the diagnostics the message carries
Error(msg, details) == [msg |-> msg, details |-> details]
NoError == Error(NoErr, << >>)

\* cfg.get(key): the settings are read when the invocation starts and do
\* not change during it; the model draws a setting where it is first used
CfgGet(c, key, v) == IF key \in DOMAIN c THEN c[key] ELSE v
CfgAfter(c, key, v) ==
  IF key \in DOMAIN c THEN c
  ELSE [k \in (DOMAIN c) \cup {key} |-> IF k = key THEN v ELSE c[k]]

\* nothing is exercised on its own
HarnessIdle ==
  /\ invocations = << >>
  /\ picked = [st |-> "idle", offered |-> << >>, bases |-> << >>, hit |-> 0]
  /\ onPath = {}
  /\ calls = << >>
  /\ script = [pc |-> "off"]

Init ==
  /\ env \in [wsl : BOOLEAN, wayland : BOOLEAN]
  /\ CMD_CACHE = << >>
  /\ files \in {[p \in Paths |-> IF p = "svg" THEN s ELSE Absent] : s \in {Absent, 1}}
  /\ run = IdleRun
  /\ pc = "idle"
  /\ cfg = << >>
  /\ clipText = NoText
  /\ thrown = NoError
  /\ prefer = "-"
  /\ backends = << >>
  /\ bIdx = 0
  /\ offered = << >>
  /\ hIdx = 0
  /\ outAbs = NoFile
  /\ inserted = << >>
  /\ defaultPastes = 0
  /\ notifications = << >>
  /\ verified = {}
  /\ log = << >>
  /\ trace = << >>
  /\ HarnessIdle

(* ------------------------- runText / runBin ----------------------------- *)

pasteVars == <<pc, cfg, clipText, thrown, prefer, backends, bIdx, offered, hIdx, outAbs,
               inserted, defaultPastes, notifications, verified, log, trace>>

\* what one data event of the command's standard output carries
Chunks(args) == IF args = "list" THEN RawLines ELSE {<<"out">>}

\* p.stdout.on("data")
ProcData ==
  /\ run.st = "pending" /\ run.proc = "running"
  /\ Len(run.stdout) < MaxOut
  /\ \E d \in Chunks(run.args) : run' = [run EXCEPT !.stdout = Append(@, d)]
  /\ UNCHANGED <<harness, env, CMD_CACHE, files, pasteVars>>

\* p.stderr.on("data")
ProcErrData ==
  /\ run.st = "pending" /\ run.proc = "running"
  /\ Len(run.stderr) < MaxErr
  /\ run' = [run EXCEPT !.stderr = Append(@, <<"err">>)]
  /\ UNCHANGED <<harness, env, CMD_CACHE, files, pasteVars>>

\* a timer callback that kills the process and leaves the promise alone
TimerFire_KillOnly ==
  /\ run.timer = "armed"
  /\ run' = [run EXCEPT !.timer = "fired",
                        !.proc = IF @ = "running" THEN "killed" ELSE @]
  /\ UNCHANGED <<harness, env, CMD_CACHE, files, pasteVars>>

\* a readType that looks at the exit code only
readType_CodeOnly(r) ==
  IF r.code # 0 THEN "Clipboard read failed" ELSE ""

\* ClipboardBackend.readType after runBin: the error thrown, "" for none
readType(r) ==
  IF r.code # 0 \/ Len(r.out) = 0 THEN "Clipboard read failed" ELSE ""

\* the setTimeout callback: kill, then resolve with the synthetic code -1
TimerFire ==
  /\ run.timer = "armed"
  /\ run' = Resolve([run EXCEPT !.timer = "fired",
                                !.proc = IF @ = "running" THEN "killed" ELSE @],
                    [code |-> -1, out |-> run.stdout,
                     stderr |-> Append(run.stderr, <<"TIMEOUT", run.timeoutMs>>)])
  /\ UNCHANGED <<harness, env, CMD_CACHE, files, pasteVars>>

\* the exit codes a command that runs to its end can leave
ExitCodes(args) ==
  IF args = "script" THEN {EXIT_SVG, EXIT_EMF, EXIT_PNG, EXIT_NOTHING, 1}
  ELSE IF args = "read" THEN {0, 1, NULL_CODE}
  ELSE {0, 1}

\* what the command has done to the files when it exits with code
Effects(cmd, code) ==
  IF cmd = "emf2svg-conv"
  THEN {[files EXCEPT !["svg"] = s] : s \in {files["svg"], 0, 1}}
  ELSE IF cmd = "powershell.exe"
  THEN (IF code = EXIT_SVG
        THEN {[files EXCEPT !["svg"] = s] : s \in {0, 1}}
        ELSE IF code = EXIT_EMF THEN {[files EXCEPT ![TMP_EMF] = s] : s \in {0, 1}}
        ELSE IF code = EXIT_PNG THEN {[files EXCEPT !["png"] = s] : s \in {0, 1}}
        ELSE {files})
  ELSE {files}

\* p.on("close"): the process ran to its end
ProcClose ==
  /\ run.st = "pending" /\ run.proc = "running" /\ ~run.hangs
  /\ \E code \in ExitCodes(run.args) :
       /\ run' = Resolve([run EXCEPT !.timer = "cleared", !.proc = "closed"],
                         [code |-> code, out |-> run.stdout, stderr |-> run.stderr])
       /\ files' \in Effects(run.cmd, code)
  /\ UNCHANGED <<harness, env, CMD_CACHE, pasteVars>>

\* p.on("close") after the promise is settled: the killed or failed process
LateClose ==
  /\ run.st = "settled" /\ run.proc \in {"killed", "failed"}
  /\ run' = Resolve([run EXCEPT !.proc = "closed",
                                !.timer = IF @ = "armed" THEN "cleared" ELSE @],
                    [code |-> NULL_CODE, out |-> run.stdout, stderr |-> run.stderr])
  /\ UNCHANGED <<harness, env, CMD_CACHE, files, pasteVars>>

\* p.on("error"): the command could not be spawned
ProcError ==
  /\ run.st = "pending" /\ run.proc = "running" /\ ~run.hangs
  /\ run.stdout = << >> /\ run.stderr = << >>
  /\ run' = Resolve([run EXCEPT !.timer = "cleared", !.proc = "failed"],
                    [code |-> -1, out |-> run.stdout,
                     stderr |-> Append(run.stderr, <<"SPAWN ERROR">>)])
  /\ UNCHANGED <<harness, env, CMD_CACHE, files, pasteVars>>

(* -------------------------- file operations ---------------------------- *)

\* writeBytes without its check of the file after the write
writeBytes_NoStat(fs, p, n, io) ==
  IF ~io THEN [fs |-> fs, err |-> "EIO", checked |-> {}]
  ELSE [fs |-> [fs EXCEPT ![p] = FileOf(n)], err |-> NoErr, checked |-> {}]

\* writeBytes(outAbs, bytes) for a buffer of n bytes; io is whether mkdir
\* and writeFile succeed.  Yields the files afterwards and the error thrown.
writeBytes(fs, p, n, io) ==
  IF ~io THEN [fs |-> fs, err |-> "EIO", checked |-> {}]
  ELSE LET fs2 == [fs EXCEPT ![p] = FileOf(n)]
           st == statSafe(fs2, p)
       IN IF ~st.exists \/ st.size = 0
          THEN [fs |-> fs2, err |-> "Output file missing/empty after write.",
                checked |-> {}]
          ELSE [fs |-> fs2, err |-> NoErr, checked |-> {p}]

\* emfPathToSvg that trusts the converter
emfOutputCheck_Unchecked(fs, p) == NoErr

\* the check of emfPathToSvg after the converter has run
emfOutputCheck(fs, p) ==
  LET st == statSafe(fs, p)
  IN IF ~st.exists \/ st.size = 0 THEN "emf2svg-conv produced no output." ELSE NoErr

\* the check of tryLinuxClipboard after the handler has run
linuxOutputCheck(fs, p) ==
  LET st == statSafe(fs, p)
  IN IF ~st.exists \/ st.size = 0 THEN "Linux handler produced empty output." ELSE NoErr

\* a decoding that takes every exit code it does not know for "nothing"
wslExportKind_UnknownIsNothing(fs, code) ==
  LET nonEmpty(p) == statSafe(fs, p).exists /\ statSafe(fs, p).size > 0
  IN IF code = EXIT_SVG THEN (IF nonEmpty(makeOutAbs("svg")) THEN "svg" ELSE "null")
     ELSE IF code = EXIT_EMF THEN (IF nonEmpty(TMP_EMF) THEN "emf" ELSE "null")
     ELSE IF code = EXIT_PNG THEN (IF nonEmpty(makeOutAbs("png")) THEN "png" ELSE "null")
     ELSE "null"

\* the decoding of the bridge script's exit code in wslExportWindowsClipboard:
\* the kind returned, "null", or "throw"
wslExportKind(fs, code) ==
  LET nonEmpty(p) == statSafe(fs, p).exists /\ statSafe(fs, p).size > 0
  IN IF code = EXIT_SVG THEN (IF nonEmpty(makeOutAbs("svg")) THEN "svg" ELSE "null")
     ELSE IF code = EXIT_EMF THEN (IF nonEmpty(TMP_EMF) THEN "emf" ELSE "null")
     ELSE IF code = EXIT_PNG THEN (IF nonEmpty(makeOutAbs("png")) THEN "png" ELSE "null")
     ELSE IF code = EXIT_NOTHING THEN "null"
     ELSE "throw"

(* ------------------------ pasteVector.pasteVector ------------------------ *)

\* out.appendLine: the level and the step of the line
LogLine(level, step) == [level |-> level, step |-> step]

Call(op, b, h) == <<op, b, h>>

ListCmd(kind) == IF kind = "wayland" THEN "wl-paste" ELSE "xclip"

\* a catch block of pasteVector: the error is logged and the sequence goes on
Caught(step, nextPc, msg, details) ==
  /\ pc' = nextPc
  /\ log' = Append(log, LogLine("warn", step))
  /\ thrown' = Error(msg, details)

\* no error is thrown in this step
Goes(nextPc) ==
  /\ pc' = nextPc
  /\ log' = log
  /\ thrown' = NoError

\* the command is run: no editor, not markdown, or a markdown document
Start ==
  /\ pc = "idle"
  /\ \E ed \in {"none", "other", "markdown"} :
       \/ /\ ed = "none"
          /\ Goes("done")
          /\ UNCHANGED defaultPastes
       \/ /\ ed = "other"
          /\ defaultPastes' = defaultPastes + 1
          /\ Goes("done")
       \/ /\ ed = "markdown"
          /\ Goes("readText")
          /\ UNCHANGED defaultPastes
  /\ UNCHANGED <<harness, env, CMD_CACHE, files, run, cfg, clipText, prefer, backends, bIdx,
                 offered, hIdx, outAbs, inserted, notifications, verified, trace>>

\* 1) vscode.env.clipboard.readText() and the test of step 1a
ReadText ==
  /\ pc = "readText"
  /\ \E txt \in ClipTexts :
       /\ clipText' = txt
       /\ Goes(IF Trim(txt) # << >> /\ looksLikeSvgText(Trim(txt))
               THEN "svgText" ELSE "textCheck")
  /\ UNCHANGED <<harness, env, CMD_CACHE, files, run, cfg, prefer, backends, bIdx, offered,
                 hIdx, outAbs, inserted, defaultPastes, notifications, verified, trace>>

\* 1a) makeOutAbs("svg") and writeSvgText
SvgTextWrite ==
  /\ pc = "svgText"
  /\ \E io \in BOOLEAN :
       LET w == writeBytes(files, makeOutAbs("svg"),
                           decodeSvgTextOrDataUri(Trim(clipText)), io)
       IN /\ files' = w.fs
          /\ verified' = verified \cup w.checked
          /\ IF w.err = NoErr
             THEN /\ outAbs' = makeOutAbs("svg")
                  /\ Goes("svgInsert")
             ELSE /\ outAbs' = outAbs
                  /\ Caught("svg-text failed", "textCheck", w.err, << >>)
  /\ trace' = Append(trace, Call("svg-text", "-", "-"))
  /\ UNCHANGED <<harness, env, CMD_CACHE, run, cfg, clipText, prefer, backends, bIdx,
                 offered, hIdx, inserted, defaultPastes, notifications>>

\* insertMarkdown(editor, docDir, outAbs, altText, copyMdToClipboard && !isWSL())
\* and the log line or the catch block after it
insertMarkdown(okStep, failStep, failPc) ==
  /\ \E copy \in BOOLEAN :
       LET copyMdToClipboard == CfgGet(cfg, "copyMdToClipboard", copy) IN
       /\ cfg' = CfgAfter(cfg, "copyMdToClipboard", copy)
       /\ \E o \in {"ok", "edit throws"} \cup
                   (IF copyMdToClipboard /\ ~env.wsl THEN {"writeText throws"} ELSE {}) :
            /\ inserted' = IF o = "edit throws" THEN inserted ELSE Append(inserted, outAbs)
            /\ IF o = "ok"
               THEN /\ pc' = "done"
                    /\ log' = Append(log, LogLine("ok", okStep))
                    /\ thrown' = NoError
               ELSE Caught(failStep, failPc, o, << >>)
  /\ trace' = Append(trace, Call("insertMarkdown", "-", "-"))
  /\ UNCHANGED <<harness, env, CMD_CACHE, files, run, clipText, prefer, backends, bIdx,
                 offered, hIdx, outAbs, defaultPastes, notifications, verified>>

\* step 1a without its return: after the link is inserted, step 1b is next
SvgInsert_NoReturn ==
  /\ pc = "svgInsert"
  /\ \E copy \in BOOLEAN :
       LET copyMdToClipboard == CfgGet(cfg, "copyMdToClipboard", copy) IN
       /\ cfg' = CfgAfter(cfg, "copyMdToClipboard", copy)
       /\ \E o \in {"ok", "edit throws"} \cup
                   (IF copyMdToClipboard /\ ~env.wsl THEN {"writeText throws"} ELSE {}) :
            /\ inserted' = IF o = "edit throws" THEN inserted ELSE Append(inserted, outAbs)
            /\ IF o = "ok"
               THEN /\ pc' = "textCheck"
                    /\ log' = Append(log, LogLine("ok", "svg-text"))
                    /\ thrown' = NoError
               ELSE Caught("svg-text failed", "textCheck", o, << >>)
  /\ trace' = Append(trace, Call("insertMarkdown", "-", "-"))
  /\ UNCHANGED <<harness, env, CMD_CACHE, files, run, clipText, prefer, backends, bIdx,
                 offered, hIdx, outAbs, defaultPastes, notifications, verified>>

SvgInsert == pc = "svgInsert" /\ insertMarkdown("svg-text", "svg-text failed", "textCheck")

WslInsert == pc = "wslInsert" /\ insertMarkdown("wsl", "wsl export failed", "linuxStart")

LinuxInsert ==
  pc = "linuxInsert" /\ insertMarkdown("linux", "linux clipboard failed", "fallback")

\* step 1b without the fast text paste
TextCheck_NoFastPaste ==
  /\ pc = "textCheck"
  /\ Goes("wslStart")
  /\ UNCHANGED <<harness, env, CMD_CACHE, files, run, cfg, clipText, prefer, backends, bIdx,
                 offered, hIdx, outAbs, inserted, defaultPastes, notifications,
                 verified, trace>>

\* step 1b taking every text that is not empty for text to paste
TextCheck_AnyText ==
  /\ pc = "textCheck"
  /\ IF Trim(clipText) # << >>
     THEN /\ defaultPastes' = defaultPastes + 1
          /\ trace' = Append(trace, Call("fast-text", "-", "-"))
          /\ Goes("done")
     ELSE /\ defaultPastes' = defaultPastes
          /\ trace' = trace
          /\ Goes("wslStart")
  /\ UNCHANGED <<harness, env, CMD_CACHE, files, run, cfg, clipText, prefer, backends, bIdx,
                 offered, hIdx, outAbs, inserted, notifications, verified>>

\* 1b) fast text paste when the trimmed text contains whitespace
TextCheck ==
  /\ pc = "textCheck"
  /\ IF Trim(clipText) # << >> /\ HasWhitespace(Trim(clipText))
     THEN /\ defaultPastes' = defaultPastes + 1
          /\ trace' = Append(trace, Call("fast-text", "-", "-"))
          /\ Goes("done")
     ELSE /\ defaultPastes' = defaultPastes
          /\ trace' = trace
          /\ Goes("wslStart")
  /\ UNCHANGED <<harness, env, CMD_CACHE, files, run, cfg, clipText, prefer, backends, bIdx,
                 offered, hIdx, outAbs, inserted, notifications, verified>>

\* the end of the sequence without the default paste
Fallback_NoPaste ==
  /\ pc = "fallback"
  /\ trace' = Append(trace, Call("fallback", "-", "-"))
  /\ Goes("done")
  /\ UNCHANGED <<harness, env, CMD_CACHE, files, run, cfg, clipText, prefer, backends, bIdx,
                 offered, hIdx, outAbs, inserted, defaultPastes, notifications, verified>>

\* 4) the default paste when nothing worked
Fallback ==
  /\ pc = "fallback"
  /\ defaultPastes' = defaultPastes + 1
  /\ trace' = Append(trace, Call("fallback", "-", "-"))
  /\ Goes("done")
  /\ UNCHANGED <<harness, env, CMD_CACHE, files, run, cfg, clipText, prefer, backends, bIdx,
                 offered, hIdx, outAbs, inserted, notifications, verified>>

\* the start of emfPathToSvg, up to the spawn of the converter: the error
\* thrown (NoErr when the converter is spawned)
emfPathToSvg(cache, probe, io) ==
  IF ~commandExists(cache, "emf2svg-conv", probe) THEN "emf2svg-conv not found in PATH."
  ELSE IF ~io THEN "EIO"
  ELSE NoErr

\* the diagnostics an error message carries: stderr, then stdout
Details(r) == r.stderr \o r.out

(* 2) the Windows clipboard bridge *)

\* tryWslWindowsClipboard up to the spawn of powershell.exe
WslStart ==
  /\ pc = "wslStart"
  /\ IF ~env.wsl
     THEN /\ Goes("linuxStart")
          /\ trace' = Append(trace, Call("tryWsl", "-", "-"))
          /\ UNCHANGED <<CMD_CACHE, files, run>>
     ELSE \E pPs \in BOOLEAN, pWp \in BOOLEAN, wp \in BOOLEAN, io \in BOOLEAN,
             hangs \in BOOLEAN :
            LET hasPs == commandExists(CMD_CACHE, "powershell.exe", pPs)
                c1 == CacheAfter(CMD_CACHE, "powershell.exe", pPs)
                hasWp == commandExists(c1, "wslpath", pWp)
                c2 == IF hasPs THEN CacheAfter(c1, "wslpath", pWp) ELSE c1
            IN /\ CMD_CACHE' = c2
               /\ files' = [files EXCEPT ![TMP_EMF] = Absent]
               /\ IF ~hasPs \/ ~hasWp \/ ~wp
                  THEN /\ Goes("linuxStart")
                       /\ trace' = Append(trace, Call("tryWsl", "-", "-"))
                       /\ run' = run
                  ELSE IF ~io
                  THEN /\ Caught("wsl export failed", "linuxStart", "EIO", << >>)
                       /\ trace' = Append(trace, Call("tryWsl", "-", "-"))
                       /\ run' = run
                  ELSE /\ Goes("wslAwait")
                       /\ trace' = trace \o <<Call("tryWsl", "-", "-"),
                                              Call("powershell.exe", "-", "-")>>
                       /\ run' = Spawn("runText", "powershell.exe", "script",
                                       T_WINCLIP_MS, hangs)
  /\ clipText' = NoText
  /\ UNCHANGED <<harness, env, cfg, prefer, backends, bIdx, offered, hIdx, outAbs,
                 inserted, defaultPastes, notifications, verified>>

\* wslExportWindowsClipboard after runText, and tryWslWindowsClipboard up to
\* its return or the spawn of the converter
WslExportDone ==
  /\ pc = "wslAwait" /\ run.st = "settled"
  /\ LET kind == wslExportKind(files, run.result.code) IN
     CASE kind = "throw" ->
            /\ Caught("wsl export failed", "linuxStart",
                      "Windows clipboard export failed.", Details(run.result))
            /\ run' = IdleRun
            /\ UNCHANGED <<CMD_CACHE, outAbs, verified, trace>>
       [] kind = "null" ->
            /\ Goes("linuxStart")
            /\ run' = IdleRun
            /\ UNCHANGED <<CMD_CACHE, outAbs, verified, trace>>
       [] kind \in {"svg", "png"} ->
            /\ Goes("wslInsert")
            /\ outAbs' = makeOutAbs(kind)
            /\ verified' = verified \cup {makeOutAbs(kind)}
            /\ run' = IdleRun
            /\ UNCHANGED <<CMD_CACHE, trace>>
       [] kind = "emf" ->
            \E probe \in BOOLEAN, io \in BOOLEAN, hangs \in BOOLEAN :
              LET err == emfPathToSvg(CMD_CACHE, probe, io) IN
              /\ CMD_CACHE' = CacheAfter(CMD_CACHE, "emf2svg-conv", probe)
              /\ verified' = verified \cup {TMP_EMF}
              /\ outAbs' = outAbs
              /\ IF err = NoErr
                 THEN /\ Goes("wslEmfAwait")
                      /\ run' = Spawn("runText", "emf2svg-conv", "convert",
                                      T_CONVERT_MS, hangs)
                      /\ trace' = Append(trace, Call("emf2svg-conv", "-", "wsl-emf"))
                 ELSE /\ Caught("wsl export failed", "linuxStart", err, << >>)
                      /\ run' = IdleRun
                      /\ trace' = trace
  /\ UNCHANGED <<harness, env, files, cfg, clipText, prefer, backends, bIdx, offered, hIdx, inserted,
                 defaultPastes, notifications>>

\* emfPathToSvg(tmpEmfAbs, outSvgAbs) after runText, in tryWslWindowsClipboard
WslEmfDone ==
  /\ pc = "wslEmfAwait" /\ run.st = "settled"
  /\ LET err == emfOutputCheck(files, makeOutAbs("svg")) IN
     IF err = NoErr
     THEN /\ Goes("wslInsert")
          /\ outAbs' = makeOutAbs("svg")
          /\ verified' = verified \cup {makeOutAbs("svg")}
     ELSE /\ Caught("wsl export failed", "linuxStart", err, Details(run.result))
          /\ UNCHANGED <<outAbs, verified>>
  /\ run' = IdleRun
  /\ UNCHANGED <<harness, env, CMD_CACHE, files, cfg, clipText, prefer, backends, bIdx,
                 offered, hIdx, inserted, defaultPastes, notifications, trace>>

(* 3) the Linux clipboard backends *)

\* the locals of tryLinuxClipboard when it returns or throws
LinuxLeft ==
  /\ backends' = << >>
  /\ bIdx' = 0
  /\ offered' = << >>
  /\ hIdx' = 0

\* tryLinuxClipboard(preferBackend, makeOutAbs): getBackends
LinuxStart ==
  /\ pc = "linuxStart"
  /\ \E pf \in {"auto", "wayland", "x11"}, pW \in BOOLEAN, pX \in BOOLEAN :
       LET hasWayland == env.wayland /\ commandExists(CMD_CACHE, "wl-paste", pW)
           c1 == IF env.wayland THEN CacheAfter(CMD_CACHE, "wl-paste", pW) ELSE CMD_CACHE
           hasX11 == commandExists(c1, "xclip", pX)
       IN /\ prefer' = pf
          /\ CMD_CACHE' = CacheAfter(c1, "xclip", pX)
          /\ backends' = getBackends(pf, hasWayland, hasX11)
  /\ Goes("linuxLoop")
  /\ trace' = Append(trace, Call("tryLinux", "-", "-"))
  /\ UNCHANGED <<harness, env, files, run, cfg, clipText, bIdx, offered, hIdx, outAbs, inserted,
                 defaultPastes, notifications, verified>>

\* the backend loop is entered: the listing of the first backend
LinuxLoop ==
  /\ pc = "linuxLoop"
  /\ prefer' = "-"
  /\ IF backends = << >>
     THEN /\ Goes("fallback")
          /\ LinuxLeft
          /\ UNCHANGED <<run, trace>>
     ELSE /\ Goes("listAwait")
          /\ bIdx' = 1
          /\ \E hangs \in BOOLEAN :
               run' = Spawn("runText", ListCmd(backends[1]), "list", T_LIST_MS, hangs)
          /\ trace' = Append(trace, Call("listTypes", backends[1], "-"))
          /\ UNCHANGED <<backends, offered, hIdx>>
  /\ UNCHANGED <<harness, env, CMD_CACHE, files, cfg, clipText, outAbs, inserted,
                 defaultPastes, notifications, verified>>

\* the handler loop of tryLinuxClipboard for the offered types off of the
\* backend the loop is at: the spawn of readType for the first handler with
\* a match, or else the listing of the next backend, or the return of null
HandlerLoop(off) ==
  LET b == backends[bIdx]
      h == FirstHandler(off)
  IN \E hangs \in BOOLEAN :
       IF h # 0
       THEN /\ Goes("readAwait")
            /\ offered' = off
            /\ hIdx' = h
            /\ run' = Spawn("runBin", ListCmd(b), "read", T_READ_MS, hangs)
            /\ trace' = Append(trace, Call("readType", b, LINUX_HANDLERS[h].name))
            /\ UNCHANGED <<backends, bIdx>>
       ELSE IF bIdx < Len(backends)
       THEN /\ Goes("listAwait")
            /\ bIdx' = bIdx + 1
            /\ run' = Spawn("runText", ListCmd(backends[bIdx + 1]), "list",
                            T_LIST_MS, hangs)
            /\ trace' = Append(trace, Call("listTypes", backends[bIdx + 1], "-"))
            /\ UNCHANGED <<backends, offered, hIdx>>
       ELSE /\ Goes("fallback")
            /\ LinuxLeft
            /\ run' = IdleRun
            /\ trace' = trace

\* a listTypes that throws when the listing command did not exit with 0
ListDone_ThrowsOnFailure ==
  /\ pc = "listAwait" /\ run.st = "settled"
  /\ IF run.result.code # 0
     THEN /\ Caught("linux clipboard failed", "fallback", "Clipboard list failed",
                    Details(run.result))
          /\ LinuxLeft
          /\ run' = IdleRun
          /\ trace' = trace
     ELSE HandlerLoop(listTypes(backends[bIdx], run.result.out))
  /\ UNCHANGED <<harness, env, CMD_CACHE, files, cfg, clipText, prefer, outAbs,
                 inserted, defaultPastes, notifications, verified>>

\* listTypes after runText, the handler loop, and the spawn of readType or
\* of the next backend's listing
ListDone ==
  /\ pc = "listAwait" /\ run.st = "settled"
  /\ HandlerLoop(listTypes(backends[bIdx], run.result.out))
  /\ UNCHANGED <<harness, env, CMD_CACHE, files, cfg, clipText, prefer, outAbs,
                 inserted, defaultPastes, notifications, verified>>


\* readType after runBin, then h.run up to its end or to the spawn of the
\* converter, the check of the output and the return
ReadDone ==
  /\ pc = "readAwait" /\ run.st = "settled"
  /\ LET r == run.result
         h == LINUX_HANDLERS[hIdx]
         out == makeOutAbs(h.ext)
         Thrown(msg) ==
           /\ Caught("linux clipboard failed", "fallback", msg, << >>)
           /\ LinuxLeft
           /\ run' = IdleRun
           /\ outAbs' = outAbs
           /\ trace' = trace
         Written(w) ==
           /\ files' = w.fs
           /\ CMD_CACHE' = CMD_CACHE
           /\ IF w.err # NoErr
              THEN /\ Thrown(w.err)
                   /\ verified' = verified \cup w.checked
              ELSE IF linuxOutputCheck(w.fs, out) # NoErr
              THEN /\ Thrown(linuxOutputCheck(w.fs, out))
                   /\ verified' = verified \cup w.checked
              ELSE /\ Goes("linuxInsert")
                   /\ verified' = verified \cup w.checked \cup {out}
                   /\ LinuxLeft
                   /\ outAbs' = out
                   /\ run' = IdleRun
                   /\ trace' = trace
     IN IF readType(r) # NoErr
        THEN /\ Thrown(readType(r))
             /\ UNCHANGED <<CMD_CACHE, files, verified>>
        ELSE CASE h.name \in {"svg", "png", "jpg"} ->
                    \E io \in BOOLEAN : Written(writeBytes(files, out, Len(r.out), io))
               [] h.name = "svgz" ->
                    \E io \in BOOLEAN, n \in maybeGunzip(Len(r.out)) :
                      Written(writeBytes(files, out, n, io))
               [] h.name = "emf" ->
                    \E ioTmp \in BOOLEAN, probe \in BOOLEAN, io \in BOOLEAN,
                       hangs \in BOOLEAN :
                      IF ~ioTmp
                      THEN /\ Thrown("EIO")
                           /\ UNCHANGED <<CMD_CACHE, files, verified>>
                      ELSE LET err == emfPathToSvg(CMD_CACHE, probe, io) IN
                           /\ files' = [files EXCEPT ![TMP_EMF] = FileOf(Len(r.out))]
                           /\ CMD_CACHE' = CacheAfter(CMD_CACHE, "emf2svg-conv", probe)
                           /\ verified' = verified
                           /\ IF err # NoErr THEN Thrown(err)
                              ELSE /\ Goes("linuxEmfAwait")
                                   /\ run' = Spawn("runText", "emf2svg-conv", "convert",
                                                   T_CONVERT_MS, hangs)
                                   /\ outAbs' = outAbs
                                   /\ offered' = << >>
                                   /\ trace' = Append(trace,
                                        Call("emf2svg-conv", backends[bIdx], "emf"))
                                   /\ UNCHANGED <<backends, bIdx, hIdx>>
  /\ UNCHANGED <<harness, env, cfg, clipText, prefer, inserted, defaultPastes, notifications>>

\* emfPathToSvg(tmpEmf, out) after runText, in the emf handler, then the
\* check of the output and the return of tryLinuxClipboard
LinuxEmfDone ==
  /\ pc = "linuxEmfAwait" /\ run.st = "settled"
  /\ LET out == makeOutAbs(LINUX_HANDLERS[hIdx].ext)
         err == IF emfOutputCheck(files, out) # NoErr THEN emfOutputCheck(files, out)
                ELSE linuxOutputCheck(files, out)
     IN IF err = NoErr
        THEN /\ Goes("linuxInsert")
             /\ outAbs' = out
             /\ verified' = verified \cup {out}
        ELSE /\ Caught("linux clipboard failed", "fallback", err, Details(run.result))
             /\ UNCHANGED <<outAbs, verified>>
  /\ LinuxLeft
  /\ run' = IdleRun
  /\ UNCHANGED <<harness, env, CMD_CACHE, files, cfg, clipText, prefer, inserted, defaultPastes,
                 notifications, trace>>

\* the commands the step the invocation is at runs with cp.spawnSync: bash
\* for a commandExists whose answer is not cached, wslpath for wslpathWin
SyncCommands ==
  LET uncached(cmd) == IF cmd \in DOMAIN CMD_CACHE THEN {} ELSE {"bash"}
      missing(cmd) == cmd \in DOMAIN CMD_CACHE /\ ~CMD_CACHE[cmd]
  IN
  CASE pc = "wslStart" /\ env.wsl ->
         IF missing("powershell.exe") THEN {}
         ELSE uncached("powershell.exe") \cup uncached("wslpath")
                \cup (IF missing("wslpath") THEN {} ELSE {"wslpath"})
    [] pc = "linuxStart" ->
         (IF env.wayland THEN uncached("wl-paste") ELSE {}) \cup uncached("xclip")
    [] pc = "wslAwait" /\ run.st = "settled" ->
         IF wslExportKind(files, run.result.code) = "emf"
         THEN uncached("emf2svg-conv") ELSE {}
    [] pc = "readAwait" /\ run.st = "settled" ->
         IF /\ LINUX_HANDLERS[hIdx].name = "emf"
            /\ run.result.code = 0 /\ Len(run.result.out) # 0
         THEN uncached("emf2svg-conv") ELSE {}
    [] OTHER -> {}

\* cp.spawnSync(cmd, ...) of commandExists or wslpathWin on a command that
\* never exits: the call has no timeout option and does not return
SpawnSyncHangs ==
  /\ \E cmd \in SyncCommands :
       run' = [IdleRun EXCEPT !.st = "sync", !.fn = "spawnSync", !.cmd = cmd,
                              !.proc = "running", !.hangs = TRUE]
  /\ pc' = "spawnSync"
  /\ UNCHANGED <<harness, env, CMD_CACHE, files, cfg, clipText, thrown, prefer, backends,
                 bIdx, offered, hIdx, outAbs, inserted, defaultPastes, notifications,
                 verified, log, trace>>

Next ==
  \/ Start
  \/ ReadText
  \/ SvgTextWrite
  \/ SvgInsert
  \/ TextCheck
  \/ WslStart
  \/ WslExportDone
  \/ WslEmfDone
  \/ WslInsert
  \/ LinuxStart
  \/ LinuxLoop
  \/ ListDone
  \/ ReadDone
  \/ LinuxEmfDone
  \/ LinuxInsert
  \/ Fallback
  \/ ProcData
  \/ ProcErrData
  \/ TimerFire
  \/ ProcClose
  \/ ProcError
  \/ LateClose
  \/ SpawnSyncHangs

Spec == Init /\ [][Next]_vars

\* the event loop runs a timer callback that is due
FairSpec == Spec /\ WF_vars(TimerFire)

(* ------------- the paste handler triggered more than once -------------- *)

\* registerCommand installs one callback; each trigger of the command calls
\* it, and a call runs until its next await
InvocationIds == {"first", "second"}

\* the positions at which a call of the handler is suspended in an await
AwaitPoints == {"readText", "writeSvgText", "tryWsl", "tryLinux", "insertMarkdown",
                "clipboardPasteAction"}

NotTriggered == [pc |-> "idle", text |-> NoText, step |-> "-", out |-> NoFile]

\* the paste invocation itself is not running
MainIdle ==
  /\ env = [wsl |-> TRUE, wayland |-> TRUE]
  /\ CMD_CACHE = << >>
  /\ files = [p \in Paths |-> Absent]
  /\ run = IdleRun
  /\ pc = "idle"
  /\ cfg = << >>
  /\ clipText = NoText
  /\ thrown = NoError
  /\ prefer = "-"
  /\ backends = << >>
  /\ bIdx = 0
  /\ offered = << >>
  /\ hIdx = 0
  /\ outAbs = NoFile
  /\ inserted = << >>
  /\ defaultPastes = 0
  /\ notifications = << >>
  /\ verified = {}
  /\ log = << >>
  /\ trace = << >>

ConcInit ==
  /\ MainIdle
  /\ invocations = [i \in InvocationIds |-> NotTriggered]
  /\ picked = [st |-> "idle", offered |-> << >>, bases |-> << >>, hit |-> 0]
  /\ onPath = {}
  /\ calls = << >>
  /\ script = [pc |-> "off"]

concFixed == <<env, CMD_CACHE, run, pc, cfg, clipText, thrown, prefer, backends, bIdx,
               offered, hIdx, outAbs, notifications, verified, log, trace,
               picked, onPath, calls, script>>

Moves(i, to) == invocations' = [invocations EXCEPT ![i] = to]

\* step 1b and what follows it, for the text the call has read
AfterSvgText(inv) ==
  IF Trim(inv.text) # << >> /\ HasWhitespace(Trim(inv.text))
  THEN [inv EXCEPT !.pc = "clipboardPasteAction", !.step = "fast-text"]
  ELSE [inv EXCEPT !.pc = "tryWsl", !.step = "wsl"]

\* the command is triggered: the callback runs to its first await
Trigger(i) ==
  /\ invocations[i].pc = "idle"
  /\ \E ed \in {"none", "other", "markdown"} :
       Moves(i, [invocations[i] EXCEPT
                   !.pc = CASE ed = "none" -> "done"
                            [] ed = "other" -> "clipboardPasteAction"
                            [] ed = "markdown" -> "readText"])
  /\ UNCHANGED <<files, inserted, defaultPastes, concFixed>>

\* readText resolves; steps 1a and 1b up to the next await
ConcReadText(i) ==
  /\ invocations[i].pc = "readText"
  /\ \E txt \in ClipTexts :
       LET inv == [invocations[i] EXCEPT !.text = txt] IN
       Moves(i, IF Trim(txt) # << >> /\ looksLikeSvgText(Trim(txt))
                THEN [inv EXCEPT !.pc = "writeSvgText", !.step = "svg-text"]
                ELSE AfterSvgText(inv))
  /\ UNCHANGED <<files, inserted, defaultPastes, concFixed>>

\* writeSvgText resolves or throws
ConcSvgWritten(i) ==
  /\ invocations[i].pc = "writeSvgText"
  /\ \E io \in BOOLEAN :
       LET w == writeBytes(files, makeOutAbs("svg"),
                           decodeSvgTextOrDataUri(Trim(invocations[i].text)), io)
       IN /\ files' = w.fs
          /\ Moves(i, IF w.err = NoErr
                      THEN [invocations[i] EXCEPT !.pc = "insertMarkdown",
                                                  !.out = makeOutAbs("svg")]
                      ELSE AfterSvgText(invocations[i]))
  /\ UNCHANGED <<inserted, defaultPastes, concFixed>>

\* tryWslWindowsClipboard resolves with an outcome, with null, or throws
ConcWslDone(i) ==
  /\ invocations[i].pc = "tryWsl"
  /\ \/ \E ext \in {"svg", "png"} :
          /\ files' = [files EXCEPT ![makeOutAbs(ext)] = 1]
          /\ Moves(i, [invocations[i] EXCEPT !.pc = "insertMarkdown",
                                             !.out = makeOutAbs(ext)])
     \/ /\ files' = files
        /\ Moves(i, [invocations[i] EXCEPT !.pc = "tryLinux", !.step = "linux"])
  /\ UNCHANGED <<inserted, defaultPastes, concFixed>>

\* tryLinuxClipboard resolves with an outcome, with null, or throws
ConcLinuxDone(i) ==
  /\ invocations[i].pc = "tryLinux"
  /\ \/ \E h \in 1..Len(LINUX_HANDLERS) :
          /\ files' = [files EXCEPT ![makeOutAbs(LINUX_HANDLERS[h].ext)] = 1]
          /\ Moves(i, [invocations[i] EXCEPT !.pc = "insertMarkdown",
                                             !.out = makeOutAbs(LINUX_HANDLERS[h].ext)])
     \/ /\ files' = files
        /\ Moves(i, [invocations[i] EXCEPT !.pc = "clipboardPasteAction",
                                           !.step = "fallback"])
  /\ UNCHANGED <<inserted, defaultPastes, concFixed>>

\* insertMarkdown resolves, or throws into the catch block of its step
ConcInserted(i) ==
  /\ invocations[i].pc = "insertMarkdown"
  /\ \E ok \in BOOLEAN :
       /\ inserted' = IF ok THEN Append(inserted, invocations[i].out) ELSE inserted
       /\ Moves(i, IF ok THEN [invocations[i] EXCEPT !.pc = "done"]
                   ELSE CASE invocations[i].step = "svg-text" ->
                               AfterSvgText([invocations[i] EXCEPT !.out = NoFile])
                          [] invocations[i].step = "wsl" ->
                               [invocations[i] EXCEPT !.pc = "tryLinux",
                                                      !.step = "linux", !.out = NoFile]
                          [] invocations[i].step = "linux" ->
                               [invocations[i] EXCEPT !.pc = "clipboardPasteAction",
                                                      !.step = "fallback",
                                                      !.out = NoFile])
  /\ UNCHANGED <<files, defaultPastes, concFixed>>

\* editor.action.clipboardPasteAction resolves; the callback returns
ConcPasted(i) ==
  /\ invocations[i].pc = "clipboardPasteAction"
  /\ defaultPastes' = defaultPastes + 1
  /\ Moves(i, [invocations[i] EXCEPT !.pc = "done"])
  /\ UNCHANGED <<files, inserted, concFixed>>

ConcNext ==
  \E i \in InvocationIds :
    \/ Trigger(i)
    \/ ConcReadText(i)
    \/ ConcSvgWritten(i)
    \/ ConcWslDone(i)
    \/ ConcLinuxDone(i)
    \/ ConcInserted(i)
    \/ ConcPasted(i)

ConcSpec == ConcInit /\ [][ConcNext]_vars

(* ------------------------ pickFirst on its own -------------------------- *)

Reverse(q) == [i \in 1..Len(q) |-> q[Len(q) + 1 - i]]

\* the match-base lists of the registry, each also in the opposite order
BaseLists ==
  {LINUX_HANDLERS[h].bases : h \in 1..Len(LINUX_HANDLERS)}
    \cup {Reverse(LINUX_HANDLERS[h].bases) : h \in 1..Len(LINUX_HANDLERS)}

\* every base a handler of the registry accepts
HandlerBases ==
  UNION {{LINUX_HANDLERS[h].bases[k] : k \in 1..Len(LINUX_HANDLERS[h].bases)} :
           h \in 1..Len(LINUX_HANDLERS)}

\* every offered-type list of up to MaxOut of these bases, in every order
OfferedLists ==
  UNION {[1..n -> {[raw |-> b, base |-> b] : b \in HandlerBases}] : n \in 1..MaxOut}

PickInit ==
  /\ MainIdle
  /\ HarnessIdle

\* const t = pickFirst(offered, h.bases)
PickCall ==
  /\ picked.st = "idle"
  /\ \E off \in OfferedLists \cup {<< >>}, bs \in BaseLists :
       picked' = [st |-> "returned", offered |-> off, bases |-> bs,
                  hit |-> pickFirst(off, bs)]
  /\ UNCHANGED <<env, CMD_CACHE, files, run, pasteVars, invocations, onPath, calls,
                 script>>

\* the next call
PickAgain ==
  /\ picked.st = "returned"
  /\ picked' = [st |-> "idle", offered |-> << >>, bases |-> << >>, hit |-> 0]
  /\ UNCHANGED <<env, CMD_CACHE, files, run, pasteVars, invocations, onPath, calls,
                 script>>

PickNext == PickCall \/ PickAgain

PickSpec == PickInit /\ [][PickNext]_vars

(* ---------------------- commandExists on its own ----------------------- *)

\* the names asked for in the sequences of calls
CacheNames == {"wl-paste", "xclip"}

CacheInit ==
  /\ MainIdle
  /\ invocations = << >>
  /\ picked = [st |-> "idle", offered |-> << >>, bases |-> << >>, hit |-> 0]
  /\ onPath \in SUBSET CacheNames
  /\ calls = << >>
  /\ script = [pc |-> "off"]

\* commandExists(cmd): the probe is spawned when the cache has no entry
CommandExistsCall ==
  /\ Len(calls) < MaxCalls
  /\ \E cmd \in CacheNames :
       LET probe == cmd \in onPath IN
       /\ calls' = Append(calls, [cmd |-> cmd,
                                  probed |-> cmd \notin DOMAIN CMD_CACHE,
                                  value |-> commandExists(CMD_CACHE, cmd, probe)])
       /\ CMD_CACHE' = CacheAfter(CMD_CACHE, cmd, probe)
  /\ UNCHANGED <<env, files, run, pasteVars, invocations, picked, onPath, script>>

\* a command is installed or removed while the process lives
PathChanges ==
  /\ \E cmd \in CacheNames :
       onPath' = IF cmd \in onPath THEN onPath \ {cmd} ELSE onPath \cup {cmd}
  /\ UNCHANGED <<env, CMD_CACHE, files, run, pasteVars, invocations, picked, calls,
                 script>>

CacheNext == CommandExistsCall \/ PathChanges

CacheSpec == CacheInit /\ [][CacheNext]_vars

(* ------------------- the PowerShell script of the bridge --------------- *)

\* the Windows clipboard as the script meets it:
\*   do      GetDataObject() is not null
\*   svg     the data of the format picked as $svgFmt: none when no format
\*           is picked, its type, or throws when GetData or the write throws
\*   html    the Html payload: none, with an <svg ... </svg> part, without
\*           one, or throws
\*   emf     EnhancedMetafile: none when not present, managed when the
\*           managed Save works, null when GetData gives null, or throws
\*   robust  ClipEmf.Save: ok for 0, fails for another code, or throws
\*   img     GetImage(): none for null, an image, or an image whose Save throws
Clipboards ==
  [do : BOOLEAN,
   svg : {"none", "string", "bytes", "stream", "other", "throws"},
   html : {"none", "svg", "nosvg", "throws"},
   emf : {"none", "managed", "null", "throws"},
   robust : {"ok", "fails", "throws"},
   img : {"none", "image", "saveThrows"}]

\* the codes PowerShell can end with when a statement outside try throws:
\* the error is reported and the next statement runs, or the script stops
AfterUncaught(nextCode) == {nextCode, 1}

ScriptInit ==
  /\ MainIdle
  /\ invocations = << >>
  /\ picked = [st |-> "idle", offered |-> << >>, bases |-> << >>, hit |-> 0]
  /\ onPath = {}
  /\ calls = << >>
  /\ \E c \in Clipboards :
       script = [pc |-> "svg", clip |-> c, code |-> NULL_CODE, tried |-> << >>]

scriptFixed == <<env, CMD_CACHE, run, pasteVars, invocations, picked, onPath, calls>>

\* the step has been tried with this outcome: written, failed or absent
Tried(step, outcome) == Append(script.tried, [step |-> step, outcome |-> outcome])

\* the script goes on to the next step
ScriptGoes(step, outcome, nextPc) ==
  /\ script' = [script EXCEPT !.pc = nextPc, !.tried = Tried(step, outcome)]
  /\ files' = files

\* the script has written the file at path and exits with code
ScriptExits(step, path, code) ==
  /\ script' = [script EXCEPT !.pc = "exit", !.code = code,
                              !.tried = Tried(step, "written")]
  /\ files' = [files EXCEPT ![path] = 1]

\* the step after the two SVG steps: EMF when present, else the raster step
AfterHtml == IF script.clip.emf # "none" THEN "emfFast" ELSE "raster"

\* 1) SVG from a clipboard format; without a data object, on to 3)
ScriptSvg ==
  /\ script.pc = "svg"
  /\ IF ~script.clip.do
     THEN script' = [script EXCEPT !.pc = "raster"] /\ files' = files
     ELSE CASE script.clip.svg \in {"string", "bytes", "stream"} ->
                 ScriptExits("svg", makeOutAbs("svg"), EXIT_SVG)
            [] script.clip.svg \in {"none", "other"} ->
                 ScriptGoes("svg", "absent", "html")
            [] script.clip.svg = "throws" ->
                 ScriptGoes("svg", "failed", "html")
  /\ UNCHANGED scriptFixed

\* 1b) SVG embedded in the HTML payload
ScriptHtml ==
  /\ script.pc = "html"
  /\ CASE script.clip.html = "svg" -> ScriptExits("html", makeOutAbs("svg"), EXIT_SVG)
       [] script.clip.html \in {"none", "nosvg"} -> ScriptGoes("html", "absent", AfterHtml)
       [] script.clip.html = "throws" -> ScriptGoes("html", "failed", AfterHtml)
  /\ UNCHANGED scriptFixed

\* a fast path that saves the metafile and does not exit
ScriptEmfFast_NoExit ==
  /\ script.pc = "emfFast"
  /\ CASE script.clip.emf = "managed" ->
            /\ script' = [script EXCEPT !.pc = "emfRobust",
                                        !.tried = Tried("emfFast", "written")]
            /\ files' = [files EXCEPT ![TMP_EMF] = 1]
       [] script.clip.emf = "null" -> ScriptGoes("emfFast", "absent", "emfRobust")
       [] script.clip.emf = "throws" -> ScriptGoes("emfFast", "failed", "emfRobust")
  /\ UNCHANGED scriptFixed

\* 2) EMF, fast path: the managed save
ScriptEmfFast ==
  /\ script.pc = "emfFast"
  /\ CASE script.clip.emf = "managed" -> ScriptExits("emfFast", TMP_EMF, EXIT_EMF)
       [] script.clip.emf = "null" -> ScriptGoes("emfFast", "absent", "emfRobust")
       [] script.clip.emf = "throws" -> ScriptGoes("emfFast", "failed", "emfRobust")
  /\ UNCHANGED scriptFixed

\* 2) EMF, robust path: GetEnhMetaFileBits through P/Invoke
ScriptEmfRobust ==
  /\ script.pc = "emfRobust"
  /\ IF script.clip.robust = "ok"
     THEN ScriptExits("emfRobust", TMP_EMF, EXIT_EMF)
     ELSE ScriptGoes("emfRobust", "failed", "raster")
  /\ UNCHANGED scriptFixed

\* 3) the raster fallback, outside every try, and the final exit 2
ScriptRaster ==
  /\ script.pc = "raster"
  /\ CASE script.clip.img = "image" -> ScriptExits("raster", makeOutAbs("png"), EXIT_PNG)
       [] script.clip.img = "none" ->
            /\ script' = [script EXCEPT !.pc = "exit", !.code = EXIT_NOTHING,
                                        !.tried = Tried("raster", "absent")]
            /\ files' = files
       [] script.clip.img = "saveThrows" ->
            \E code \in AfterUncaught(EXIT_PNG) :
              /\ script' = [script EXCEPT !.pc = "exit", !.code = code,
                                          !.tried = Tried("raster", "failed")]
              /\ files' = files
  /\ UNCHANGED scriptFixed

ScriptNext ==
  \/ ScriptSvg
  \/ ScriptHtml
  \/ ScriptEmfFast
  \/ ScriptEmfRobust
  \/ ScriptRaster

ScriptSpec == ScriptInit /\ [][ScriptNext]_vars

(* ------------------------------ claims --------------------------------- *)

Has(tr, op) == \E i \in 1..Len(tr) : tr[i][1] = op

\* the first position of op in tr, 0 when absent
First(tr, op) ==
  IF Has(tr, op)
  THEN CHOOSE i \in 1..Len(tr) : tr[i][1] = op /\ \A j \in 1..(i - 1) : tr[j][1] # op
  ELSE 0

\* C1: whenever tryWslWindowsClipboard or tryLinuxClipboard has returned an
\* outcome, the file at its outAbs exists and is not empty.
C1_SuccessIsNonEmptyFile ==
  pc \in {"wslInsert", "linuxInsert"} =>
    /\ outAbs \in Paths
    /\ files[outAbs] # Absent
    /\ files[outAbs] > 0

\* an outcome of the bridge after the converter has run on a metafile
C1_Witness ==
  /\ pc = "wslInsert"
  /\ Has(trace, "emf2svg-conv")
  /\ outAbs = "svg"

\* C2: every path a markdown link was inserted for was found to exist with
\* a size greater than zero by a check of the same invocation, before the
\* insertion.
C2_InsertOnlyVerified ==
  \A i \in 1..Len(inserted) : inserted[i] \in verified

\* the link of an inline SVG text has been inserted
C2_Witness ==
  /\ pc = "done"
  /\ inserted = <<"svg">>
  /\ Has(trace, "svg-text")
  /\ ~Has(trace, "tryWsl")

\* C3: when a usable backend fails in the native attempt (its read or the
\* conversion of the matched handler throws) and another usable backend
\* follows it in the preference order, the error is logged and the next
\* backend is listed.
C3_NextBackendTried ==
  [][(/\ pc \in {"readAwait", "linuxEmfAwait"}
      /\ thrown' # NoError
      /\ bIdx < Len(backends))
     => (/\ Len(log') = Len(log) + 1
         /\ pc' = "listAwait"
         /\ bIdx' = bIdx + 1)]_vars

\* a lower-priority handler than h has a match in the offered types
LowerMatch(off, h) ==
  \E j \in (h + 1)..Len(LINUX_HANDLERS) : pickFirst(off, LINUX_HANDLERS[j].bases) # 0

\* C4: when the emf handler runs on the bytes read and emf2svg-conv is not
\* on the search path, the handler fails with an error that names the tool,
\* the converter is not spawned, and the next candidate is attempted: a
\* lower-priority handler with a match on the same backend, or else the
\* next usable backend.
C4_MissingConverterProceeds ==
  [][(/\ pc = "readAwait"
      /\ hIdx # 0
      /\ LINUX_HANDLERS[hIdx].name = "emf"
      /\ pc' # "readAwait"
      /\ "emf2svg-conv" \in DOMAIN CMD_CACHE'
      /\ ~CMD_CACHE'["emf2svg-conv"]
      /\ files'[TMP_EMF] = 1)
     => (/\ thrown'.msg = "emf2svg-conv not found in PATH."
         /\ run'.cmd # "emf2svg-conv"
         /\ IF LowerMatch(offered, hIdx)
            THEN pc' = "readAwait" /\ hIdx' > hIdx
            ELSE IF bIdx < Len(backends)
            THEN pc' = "listAwait" /\ bIdx' = bIdx + 1
            ELSE pc' = "fallback")]_vars

\* a handler whose name is in names has a base among the offered types
HasMatch(off, names) ==
  \E h \in 1..Len(LINUX_HANDLERS) :
    /\ LINUX_HANDLERS[h].name \in names
    /\ \E i \in 1..Len(off), k \in 1..Len(LINUX_HANDLERS[h].bases) :
         off[i].base = LINUX_HANDLERS[h].bases[k]

\* C5: when the offered types of a backend hold a match of a vector handler
\* and a match of a raster handler, in any order, the handler whose type is
\* read is a vector handler; and the handler loop resolves every list over
\* the bases of the registry that holds both kinds to a vector handler.
C5_VectorBeforeRaster ==
  /\ pc = "readAwait" =>
       ((HasMatch(offered, VectorHandlers) /\ HasMatch(offered, RasterHandlers))
          => LINUX_HANDLERS[hIdx].name \in VectorHandlers)
  /\ pc = "idle" =>
       \A off \in OfferedLists :
         (HasMatch(off, VectorHandlers) /\ HasMatch(off, RasterHandlers))
           => /\ FirstHandler(off) # 0
              /\ LINUX_HANDLERS[FirstHandler(off)].name \in VectorHandlers

\* offered [image/png, image/svg+xml]: the svg handler is the one attempted
C5_Witness ==
  /\ pc = "readAwait"
  /\ Len(offered) = 2
  /\ offered[1].base = <<"image/png">>
  /\ offered[2].base = <<"image/svg+xml">>
  /\ LINUX_HANDLERS[hIdx].name = "svg"

MediaCalls == {"tryWsl", "powershell.exe", "tryLinux", "listTypes", "readType",
               "emf2svg-conv"}

NoMedia(tr) == \A i \in 1..Len(tr) : tr[i][1] \notin MediaCalls

\* C6 as stated: if the clipboard text contains whitespace and was not
\* handled as inline SVG, the invocation executes the default paste at once
\* and stops, and makes no bridge call and no native listing or read.
C6_WhitespaceDefersToPaste ==
  [][(pc = "textCheck" /\ HasWhitespace(clipText))
     => (/\ pc' = "done"
         /\ defaultPastes' = defaultPastes + 1
         /\ NoMedia(trace'))]_vars

\* C6 amended: if the clipboard text, once trimmed, contains whitespace and
\* was not handled as inline SVG, the invocation executes the default paste
\* at once and stops, and makes no bridge call and no native listing or
\* read.
C6_TrimmedWhitespaceDefersToPaste ==
  /\ [][(pc = "textCheck" /\ HasWhitespace(Trim(clipText)))
        => (/\ pc' = "done"
            /\ defaultPastes' = defaultPastes + 1
            /\ NoMedia(trace'))]_vars
  /\ [](Has(trace, "fast-text")
        => (/\ pc = "done"
            /\ HasWhitespace(Trim(clipText))
            /\ NoMedia(trace)
            /\ run.st = "idle"))

\* the text "x x" has been pasted by the default paste
C6_Witness ==
  /\ pc = "done"
  /\ clipText = <<CH, WS, CH>>
  /\ defaultPastes = 1
  /\ trace = <<Call("fast-text", "-", "-")>>

\* C7: if the clipboard text is a single token without whitespace and is
\* not SVG text, step 1b does not paste it and goes on to the bridge; and
\* once the media negotiation is entered, a default paste comes only after
\* the bridge and then the native backends were tried.
C7_TokenFallsThroughToMedia ==
  /\ [][(/\ pc = "textCheck"
         /\ clipText # << >>
         /\ ~HasWhitespace(clipText)
         /\ ~looksLikeSvgText(clipText))
        => (pc' = "wslStart" /\ defaultPastes' = defaultPastes)]_vars
  /\ []((Has(trace, "tryWsl") /\ defaultPastes > 0)
        => (/\ defaultPastes = 1
            /\ First(trace, "tryWsl") < First(trace, "tryLinux")
            /\ First(trace, "tryLinux") < First(trace, "fallback")))

\* the token "x" after step 1b: not pasted, the bridge is next
C7_Witness ==
  /\ pc = "wslStart"
  /\ clipText = <<CH>>
  /\ defaultPastes = 0

Exhausted ==
  /\ Has(trace, "fallback")
  /\ ~Has(trace, "insertMarkdown")
  /\ env.wsl => \E i \in 1..Len(log) : log[i] = LogLine("warn", "wsl export failed")
  /\ \E i \in 1..Len(log) : log[i] = LogLine("warn", "linux clipboard failed")

\* C9: an invocation that ends in total exhaustion (every step of the
\* negotiation failed, then the default paste) has shown one error to the
\* user; an invocation that ends otherwise has shown none.
C9_ExhaustionShowsOneError ==
  pc = "done" =>
    IF Exhausted THEN Len(notifications) = 1 ELSE notifications = << >>

\* C10: a runText or runBin call on a command that never exits is resolved:
\* the timer fires, the process is killed, and the result is the code -1,
\* the standard error with a note of the timeout and its duration, and the
\* output captured until then.
C10_TimeoutResolves ==
  (run.st = "pending" /\ run.hangs)
    ~> (/\ run.st = "settled"
        /\ run.timer = "fired"
        /\ run.proc \in {"killed", "closed"}
        /\ run.result.code = -1
        /\ run.result.out = run.stdout
        /\ run.result.stderr = Append(run.stderr, <<"TIMEOUT", run.timeoutMs>>))

\* a read that timed out after a chunk of output had arrived
C10_Witness ==
  /\ run.st = "settled"
  /\ run.fn = "runBin"
  /\ run.timer = "fired"
  /\ run.result.code = -1
  /\ Len(run.result.out) > 0

\* C11: while one call of the paste handler is suspended in an await, no
\* other call is in progress; in particular no two calls in progress have
\* written the same output path.
C11_InvocationsNeverInterleave ==
  \A i, j \in InvocationIds :
    (i # j /\ invocations # << >>)
      => /\ ~(invocations[i].pc \in AwaitPoints /\ invocations[j].pc \in AwaitPoints)
         /\ ~(/\ invocations[i].pc = "insertMarkdown"
              /\ invocations[j].pc = "insertMarkdown"
              /\ invocations[i].out = invocations[j].out)

\* C12: every external process a paste invocation waits for is bounded by a
\* timeout: while the process runs, a timer that ends the step is armed, so
\* no command that never exits can keep the invocation from terminating.
C12_EveryCallBounded ==
  run.proc = "running" => (run.timer = "armed" /\ run.timeoutMs > 0)

\* C13: pickFirst(offered, bases) returns null iff no offered base is in
\* bases; otherwise it returns an offered entry whose base is the entry of
\* bases that comes earliest in bases among those that occur in offered, and
\* it is the first offered entry with that base: the order of bases decides,
\* not the order of offered.
C13_PickFirstFollowsBases ==
  picked.st = "returned" =>
    LET off == picked.offered
        bs == picked.bases
        hit == picked.hit
        InBases(b) == \E k \in 1..Len(bs) : bs[k] = b
        Pos(b) == CHOOSE k \in 1..Len(bs) :
                    bs[k] = b /\ \A m \in 1..(k - 1) : bs[m] # b
    IN /\ (hit = 0) <=> (\A i \in 1..Len(off) : ~InBases(off[i].base))
       /\ hit # 0 =>
            /\ hit \in 1..Len(off)
            /\ InBases(off[hit].base)
            /\ \A i \in 1..Len(off) :
                 InBases(off[i].base) => Pos(off[hit].base) <= Pos(off[i].base)
            /\ \A j \in 1..(hit - 1) : off[j].base # off[hit].base

\* offered [image/x-png, image/png] against bases [image/png, image/x-png]:
\* the second offered entry is returned
C13_Witness ==
  /\ picked.st = "returned"
  /\ Len(picked.offered) = Len(picked.bases)
  /\ picked.bases = << <<"image/png">>, <<"image/x-png">> >>
  /\ picked.offered[1].base = <<"image/x-png">>
  /\ picked.offered[Len(picked.offered)].base = <<"image/png">>
  /\ picked.hit = Len(picked.offered)

\* the command resolved when commandExists was asked for it
Resolves(cmd) == cmd \in DOMAIN CMD_CACHE /\ CMD_CACHE[cmd]

\* C14: the list getBackends(prefer) returned holds wayland iff
\* WAYLAND_DISPLAY is set and wl-paste resolves, x11 iff xclip resolves, and
\* nothing else, each once; when both are usable, wayland comes first for
\* auto and wayland, x11 comes first for x11.
C14_BackendsUsableInOrder ==
  pc = "linuxLoop" =>
    LET hasW == env.wayland /\ Resolves("wl-paste")
        hasX == Resolves("xclip")
        in(k) == \E i \in 1..Len(backends) : backends[i] = k
    IN /\ in("wayland") <=> hasW
       /\ in("x11") <=> hasX
       /\ \A i \in 1..Len(backends) : backends[i] \in {"wayland", "x11"}
       /\ \A i, j \in 1..Len(backends) : backends[i] = backends[j] => i = j
       /\ (hasW /\ hasX) =>
            backends = IF prefer = "x11" THEN <<"x11", "wayland">>
                       ELSE <<"wayland", "x11">>

\* both backends usable and x11 preferred: x11 is first
C14_Witness ==
  /\ pc = "linuxLoop"
  /\ prefer = "x11"
  /\ env.wayland
  /\ backends = <<"x11", "wayland">>

\* C15: over any sequence of commandExists calls, the probe is run at most
\* once for each name, every later call for a name returns what the first
\* returned, whatever has become of the command since, and an entry of the
\* cache is never removed or changed.
C15_CacheWriteOnce ==
  /\ [](\A i, j \in 1..Len(calls) :
          (i < j /\ calls[i].cmd = calls[j].cmd)
            => (~calls[j].probed /\ calls[j].value = calls[i].value))
  /\ [][\A c \in DOMAIN CMD_CACHE :
          c \in DOMAIN CMD_CACHE' /\ CMD_CACHE'[c] = CMD_CACHE[c]]_vars

\* a name not found at the first call, installed since, asked for again
C15_Witness ==
  /\ Len(calls) = MaxCalls
  /\ calls[1].cmd = calls[MaxCalls].cmd
  /\ calls[1].probed /\ ~calls[1].value
  /\ calls[1].cmd \in onPath
  /\ ~calls[MaxCalls].value

\* C16: when the process of readType has settled, readType throws its read
\* error, and nothing is written, if the exit code is not 0 (a timeout or a
\* spawn error gives -1, a death by signal gives null) or no byte was
\* captured; it returns the bytes, without that error, only when the exit
\* code is 0 and the output is not empty.
C16_ReadFailsUnlessZeroAndNonEmpty ==
  [][(pc = "readAwait" /\ run.st = "settled" /\ pc' # pc)
     => LET r == run.result IN
        IF r.code = 0 /\ Len(r.out) > 0
        THEN thrown'.msg # "Clipboard read failed"
        ELSE /\ thrown' = Error("Clipboard read failed", << >>)
             /\ files' = files
             /\ pc' = "fallback"]_vars

\* a read has failed: pasteVector has caught the error of readType
C16_Witness ==
  /\ pc = "fallback"
  /\ thrown.msg = "Clipboard read failed"
  /\ trace[Len(trace)][1] = "readType"

\* C17: when the listing command has settled, listTypes throws nothing
\* whatever the exit code; and when the command failed (exit code not 0: a
\* non-zero exit, a timeout, a spawn error) with no line of output, the
\* offered types are the empty sequence, no handler is attempted, and the
\* native attempt lists the next backend, or returns null after the last.
C17_ListNeverFails ==
  [][(pc = "listAwait" /\ run.st = "settled" /\ run'.st # "settled")
     => LET r == run.result IN
        /\ thrown' = NoError
        /\ log' = log
        /\ (r.code # 0 /\ SelectSeq(r.out, IsNonEmpty) = << >>)
             => /\ listTypes(backends[bIdx], r.out) = << >>
                /\ IF bIdx < Len(backends)
                   THEN /\ pc' = "listAwait"
                        /\ bIdx' = bIdx + 1
                        /\ trace' = Append(trace,
                                           Call("listTypes", backends[bIdx + 1], "-"))
                   ELSE pc' = "fallback" /\ trace' = trace]_vars

\* the listing of wayland gave no type; x11 is being listed
C17_Witness ==
  /\ pc = "listAwait"
  /\ bIdx = Len(backends)
  /\ backends = <<"wayland", "x11">>
  /\ run.st = "pending"
  /\ log = << >>
  /\ thrown = NoError

\* the file at path p exists and is not empty
NonEmptyFile(p) == files[p] # Absent /\ files[p] > 0

\* the bridge returns nothing: no error, no log line, the native step is next
BridgeNothing == pc' = "linuxStart" /\ thrown' = NoError /\ log' = log

\* C18: when the bridge script has settled, its result follows from the exit
\* code: 12, 10, 11 report svg, emf, png if the file of that kind is not
\* empty and nothing otherwise; 2 reports nothing, without an error; every
\* other code (also the -1 of a timeout or a spawn error, and null) throws
\* the bridge failure with the captured standard error and output.
C18_BridgeDecodedFromExitCode ==
  [][(pc = "wslAwait" /\ run.st = "settled" /\ pc' # pc)
     => LET code == run.result.code IN
        CASE code = EXIT_SVG ->
               IF NonEmptyFile(makeOutAbs("svg"))
               THEN pc' = "wslInsert" /\ outAbs' = makeOutAbs("svg")
               ELSE BridgeNothing
          [] code = EXIT_PNG ->
               IF NonEmptyFile(makeOutAbs("png"))
               THEN pc' = "wslInsert" /\ outAbs' = makeOutAbs("png")
               ELSE BridgeNothing
          [] code = EXIT_EMF ->
               IF NonEmptyFile(TMP_EMF)
               THEN \/ pc' = "wslEmfAwait" /\ run'.cmd = "emf2svg-conv"
                    \/ pc' = "spawnSync"
                    \/ /\ pc' = "linuxStart"
                       /\ thrown'.msg \notin {NoErr, "Windows clipboard export failed."}
               ELSE BridgeNothing
          [] code = EXIT_NOTHING -> BridgeNothing
          [] OTHER ->
               /\ pc' = "linuxStart"
               /\ thrown' = Error("Windows clipboard export failed.",
                                  run.result.stderr \o run.result.out)
               /\ log' = Append(log, LogLine("warn", "wsl export failed"))]_vars

\* the script was killed by the timer: the bridge failure carries the note
C18_Witness ==
  /\ pc = "linuxStart"
  /\ thrown.msg = "Windows clipboard export failed."
  /\ \E i \in 1..Len(thrown.details) : thrown.details[i] = <<"TIMEOUT", T_WINCLIP_MS>>

\* the order in which the script tries the representations
ScriptOrder == <<"svg", "html", "emfFast", "emfRobust", "raster">>

Rank(step) == CHOOSE k \in 1..Len(ScriptOrder) : ScriptOrder[k] = step

\* the exit code that tells of the representation a step writes
CodeOf(step) ==
  CASE step \in {"svg", "html"} -> EXIT_SVG
    [] step \in {"emfFast", "emfRobust"} -> EXIT_EMF
    [] step = "raster" -> EXIT_PNG

\* the steps were tried in the fixed order; a step was tried only if no
\* step before it had written; the low-level EMF path was tried only after
\* the managed one, and always when the managed one threw
ScriptInOrder ==
  LET t == script.tried IN
  /\ \A i, j \in 1..Len(t) : i < j => Rank(t[i].step) < Rank(t[j].step)
  /\ \A i \in 1..Len(t) : t[i].outcome = "written" => i = Len(t)
  /\ \A i \in 1..Len(t) :
       t[i].step = "emfRobust" => (i > 1 /\ t[i - 1].step = "emfFast")
  /\ \A i \in 1..Len(t) :
       (t[i] = [step |-> "emfFast", outcome |-> "failed"] /\ script.pc = "exit")
         => (i < Len(t) /\ t[i + 1].step = "emfRobust")

Logged(level, step) == \E i \in 1..Len(log) : log[i] = LogLine(level, step)

\* C20: clipboard text that looks like SVG goes to step 1a before anything
\* else is tried; when the file is written and the link inserted, the
\* invocation returns, with one link inserted, no default paste, and no call
\* of the bridge or of a native backend; the steps after 1a are reached from
\* it only when the write or the insertion has failed.
C20_SvgTextBeforeNegotiation ==
  /\ [][(pc = "readText" /\ pc' # pc)
        => IF Trim(clipText') # << >> /\ looksLikeSvgText(Trim(clipText'))
           THEN pc' = "svgText" /\ trace' = trace
           ELSE pc' # "svgText"]_vars
  /\ [](Has(trace, "svg-text") => trace[1][1] = "svg-text")
  /\ [](Logged("ok", "svg-text")
          => /\ pc = "done"
             /\ inserted = <<makeOutAbs("svg")>>
             /\ defaultPastes = 0
             /\ NoMedia(trace))
  /\ []((Has(trace, "svg-text") /\ pc \notin {"svgInsert", "done"})
          => Logged("warn", "svg-text failed"))
  /\ []((Has(trace, "svg-text") /\ pc = "done")
          => (Logged("ok", "svg-text") \/ Logged("warn", "svg-text failed")))

\* an SVG data URI on the clipboard: written, inserted, and nothing else
C20_Witness ==
  /\ pc = "done"
  /\ clipText = <<DATA_PREFIX, B64, COMMA, CH, CH>>
  /\ log = <<LogLine("ok", "svg-text")>>
  /\ trace = <<Call("svg-text", "-", "-"), Call("insertMarkdown", "-", "-")>>
  /\ files[makeOutAbs("svg")] = 1

\* the await after the converter of emfPathToSvg, in either caller
EmfAwaits == {"wslEmfAwait", "linuxEmfAwait"}

\* the converter wrote nothing in this call: it timed out or did not spawn
NoConverterOutput ==
  /\ pc \in EmfAwaits
  /\ run.st = "settled"
  /\ run.cmd = "emf2svg-conv"
  /\ run.result.code = -1

\* C21: when the converter of emfPathToSvg has produced no output in this
\* call (it timed out or could not be spawned), the conversion fails with
\* "emf2svg-conv produced no output." and the captured standard error, then
\* the standard output, whatever was at the destination path before; the
\* conversion succeeds only with a non-empty destination file.
C21_ConversionFailsWithoutOutput ==
  [][/\ (NoConverterOutput /\ pc' # pc)
         => /\ pc' \notin {"wslInsert", "linuxInsert"}
            /\ thrown' = Error("emf2svg-conv produced no output.",
                               Details(run.result))
     /\ (pc \in EmfAwaits /\ pc' \in {"wslInsert", "linuxInsert"})
         => statSafe(files, makeOutAbs("svg")).size > 0]_vars

\* the actions of the invocation that change the document: the links
\* editor.edit inserted and the default pastes
DocumentChanges == Len(inserted) + defaultPastes

\* C22: a paste invocation changes the document at most once: one link
\* insertion or one default paste, never both and never two insertions,
\* also when insertMarkdown fails after its edit.
C22_AtMostOneDocumentChange == DocumentChanges <= 1

\* an event of the process or the timer of the call in progress: the paste
\* invocation stays where it is
CallEvent == run.fn \in {"runText", "runBin"} /\ UNCHANGED pasteVars

\* the value the event that has just settled the call resolves with
FirstEventValue ==
  IF run'.timer = "fired"
  THEN /\ run'.proc = "killed"
       /\ run'.result = [code |-> -1, out |-> run.stdout,
                         stderr |-> Append(run.stderr, <<"TIMEOUT", run.timeoutMs>>)]
  ELSE IF run'.proc = "closed"
  THEN /\ run'.timer = "cleared"
       /\ run'.result.code \in ExitCodes(run.args)
       /\ run'.result.out = run.stdout
       /\ run'.result.stderr = run.stderr
  ELSE /\ run'.proc = "failed"
       /\ run'.timer = "cleared"
       /\ run'.result = [code |-> -1, out |-> run.stdout,
                         stderr |-> Append(run.stderr, <<"SPAWN ERROR">>)]

\* C23: a runText/runBin call resolves exactly once, with the outcome of
\* the first of timer expiry, process close and spawn error; an event that
\* arrives later leaves the result as it is; when close or error came
\* first the timer is cancelled, so it never fires and never kills the
\* process; and a pending call does get resolved.
C23_FirstEventSettles ==
  /\ [][CallEvent =>
          /\ (run.st = "pending" /\ run'.st = "settled") => FirstEventValue
          /\ run.st = "settled" => (run'.st = "settled" /\ run'.result = run.result)
          /\ run.timer = "cleared" => run'.timer = "cleared"
          /\ (run.timer = "cleared" /\ run.proc # "killed") => run'.proc # "killed"]_vars
  /\ [](run.st = "settled" => run.timer \in {"fired", "cleared"})
  /\ (run.st = "pending") ~> (run.st = "settled")

\* the timer fired first and the close of the killed process arrived later:
\* the result is still that of the timeout
C23_Witness ==
  /\ run.st = "settled"
  /\ run.timer = "fired"
  /\ run.proc = "closed"
  /\ run.result.code = -1
  /\ run.result.stderr = Append(run.stderr, <<"TIMEOUT", run.timeoutMs>>)

====
